---- MODULE Spec2Model ----
(***************************************************************************)
(* State-machine model of src/main.py: the YAMLAgentSystem routing loop    *)
(* (process_request, _get_route, _execute_agent), the tool closure's       *)
(* authorization hand-off (tool_function) and the two modes of main(): the *)
(* single request given on the command line and the interactive command    *)
(* loop.                                                                   *)
(*                                                                         *)
(* A Python string is the sequence of its characters, one string of one    *)
(* character each.  A character the module cannot spell has a stand-in     *)
(* name: "LOCK" is the lock sign U+1F512, "U+2003" is the character at     *)
(* that code point.  Python's None is the sequence None below, which no    *)
(* string of the model equals.                                             *)
(***************************************************************************)
EXTENDS Integers, Sequences, FiniteSets, TLC

\* ------------------------------------------------------------------ bounds
MaxIter == 2        \* the largest routing.max_iterations among the configurations
MaxTools == 2       \* tool invocations inside one get_response call
MaxInputs == 2      \* lines read by the interactive loop

\* ----------------------------------------------------------------- strings
None == <<"<None>">>

Truthy(v) == v # None /\ v # <<>>

Str(v) == IF v = None THEN <<"N", "o", "n", "e">> ELSE v

\* the characters str.strip() removes (those with str.isspace()): the ASCII
\* ones, U+0085 and U+00A0, and, by their stand-in names, the white space
\* beyond U+00FF
IsSpace(c) ==
    \/ c \in {" ", "\t", "\n", "\r", "\f", "", "", "", "", ""}
    \/ c \in {"", " "}
    \/ c \in {"U+0085", "U+00A0", "U+1680", "U+2000", "U+2001", "U+2002", "U+2003",
              "U+2004", "U+2005", "U+2006", "U+2007", "U+2008", "U+2009", "U+200A",
              "U+2028", "U+2029", "U+202F", "U+205F", "U+3000"}

RECURSIVE LStrip(_)
LStrip(s) == IF s # <<>> /\ IsSpace(Head(s)) THEN LStrip(Tail(s)) ELSE s

RECURSIVE RStrip(_)
RStrip(s) ==
    IF s # <<>> /\ IsSpace(s[Len(s)]) THEN RStrip(SubSeq(s, 1, Len(s) - 1)) ELSE s

Strip(s) == RStrip(LStrip(s))

\* str.lower() on one character: the cased letters of ASCII and Latin-1
LowerTable ==
    "A" :> "a" @@ "B" :> "b" @@ "C" :> "c" @@ "D" :> "d" @@ "E" :> "e"
    @@ "F" :> "f" @@ "G" :> "g" @@ "H" :> "h" @@ "I" :> "i" @@ "J" :> "j"
    @@ "K" :> "k" @@ "L" :> "l" @@ "M" :> "m" @@ "N" :> "n" @@ "O" :> "o"
    @@ "P" :> "p" @@ "Q" :> "q" @@ "R" :> "r" @@ "S" :> "s" @@ "T" :> "t"
    @@ "U" :> "u" @@ "V" :> "v" @@ "W" :> "w" @@ "X" :> "x" @@ "Y" :> "y"
    @@ "Z" :> "z" @@ "À" :> "à" @@ "Á" :> "á" @@ "Â" :> "â" @@ "Ã" :> "ã"
    @@ "Ä" :> "ä" @@ "Å" :> "å" @@ "Æ" :> "æ" @@ "Ç" :> "ç" @@ "È" :> "è"
    @@ "É" :> "é" @@ "Ê" :> "ê" @@ "Ë" :> "ë" @@ "Ì" :> "ì" @@ "Í" :> "í"
    @@ "Î" :> "î" @@ "Ï" :> "ï" @@ "Ð" :> "ð" @@ "Ñ" :> "ñ" @@ "Ò" :> "ò"
    @@ "Ó" :> "ó" @@ "Ô" :> "ô" @@ "Õ" :> "õ" @@ "Ö" :> "ö" @@ "Ø" :> "ø"
    @@ "Ù" :> "ù" @@ "Ú" :> "ú" @@ "Û" :> "û" @@ "Ü" :> "ü" @@ "Ý" :> "ý"
    @@ "Þ" :> "þ"

Cased == DOMAIN LowerTable

LowerAtom(c) == IF c \in Cased THEN LowerTable[c] ELSE c

Lower(s) == [i \in DOMAIN s |-> LowerAtom(s[i])]

StartsWith(s, p) == Len(s) >= Len(p) /\ SubSeq(s, 1, Len(p)) = p

Contains(s, p) ==
    \E i \in 0..(Len(s) - Len(p)) : SubSeq(s, i + 1, i + Len(p)) = p

UserPrefix == <<"U", "s", "e", "r", ":">>
COMPLETE ==
    <<"C", "O", "M", "P", "L", "E", "T", "E">>
AuthMarker ==
    <<"LOCK", " ", "A", "U", "T", "H", "O", "R", "I", "Z", "A", "T", "I", "O", "N",
      "_", "R", "E", "Q", "U", "I", "R", "E", "D", ":">>
ErrorPrefix == <<"E", "r", "r", "o", "r", ":", " ">>
AuthPhrase ==
    <<"a", "u", "t", "h", "o", "r", "i", "z", "a", "t", "i", "o", "n", " ", "r", "e",
      "q", "u", "i", "r", "e", "d">>
DeniedPrefix == <<"P", "e", "r", "m", "i", "s", "s", "i", "o", "n", " ",
                  "d", "e", "n", "i", "e", "d", " ", "-", " ">>

UserTurn(text) == UserPrefix \o <<" ">> \o text
AgentTurnNoText(agent_id, text) == agent_id \o <<":", " ">>
AgentTurn(agent_id, text) == agent_id \o <<":", " ">> \o text
AuthMessage(url) == AuthMarker \o <<" ">> \o Str(url)

\* "\n".join(...)
RECURSIVE Join(_)
Join(parts) ==
    IF parts = <<>> THEN <<>>
    ELSE IF Len(parts) = 1 THEN parts[1]
    ELSE parts[1] \o <<"\n">> \o Join(Tail(parts))

\* lines 336-339
ContextInstruction ==
    <<"I", "M", "P", "O", "R", "T", "A", "N", "T", ":", " ", "C", "h", "e", "c", "k",
      " ", "t", "h", "e", " ", "c", "o", "n", "v", "e", "r", "s", "a", "t", "i", "o",
      "n", " ", "h", "i", "s", "t", "o", "r", "y", " ", "b", "e", "l", "o", "w", ".",
      " ", "P", "r", "e", "v", "i", "o", "u", "s", " ", "a", "g", "e", "n", "t", "s",
      " ", "m", "a", "y", " ", "h", "a", "v", "e", " ", "a", "l", "r", "e", "a", "d",
      "y", " ", "r", "e", "t", "r", "i", "e", "v", "e", "d", " ", "d", "a", "t", "a",
      ".", " ", "L", "o", "o", "k", " ", "f", "o", "r", " ", "[", "P", "r", "e", "v",
      "i", "o", "u", "s", " ", "A", "g", "e", "n", "t", " ", "O", "u", "t", "p", "u",
      "t", "]", " ", "s", "e", "c", "t", "i", "o", "n", "s", " ", "a", "n", "d", " ",
      "u", "s", "e", " ", "t", "h", "a", "t", " ", "i", "n", "f", "o", "r", "m", "a",
      "t", "i", "o", "n", " ", "i", "n", "s", "t", "e", "a", "d", " ", "o", "f", " ",
      "m", "a", "k", "i", "n", "g", " ", "d", "u", "p", "l", "i", "c", "a", "t", "e",
      " ", "A", "P", "I", " ", "c", "a", "l", "l", "s", ".", "\n", "\n">>

\* lines 330-333
OutputOpen ==
    <<"\n", "[", "P", "r", "e", "v", "i", "o", "u", "s", " ", "A", "g", "e", "n", "t",
      " ", "O", "u", "t", "p", "u", "t", "]", "\n">>
OutputClose ==
    <<"\n", "[", "E", "n", "d", " ", "o", "f", " ", "P", "r", "e", "v", "i", "o", "u",
      "s", " ", "A", "g", "e", "n", "t", " ", "O", "u", "t", "p", "u", "t", "]">>
FormatEntry(entry) ==
    IF StartsWith(entry, UserPrefix)
    THEN entry
    ELSE OutputOpen \o entry \o OutputClose

\* lines 328-341: the content of the message given to a member agent
FullContext(conv) ==
    ContextInstruction \o Join([i \in DOMAIN conv |-> FormatEntry(conv[i])])

\* line 312: the content of the message given to the supervisor
RouterMessage(conv) == Join(conv)

\* ------------------------------------------------------ inputs (bounded)
A1 == <<"a">>
A2 == <<"b">>
\* configurations: the registered agents in registration order, the value of
\* routing.supervisor (None when the key is absent) and routing.max_iterations
S0 == <<"s">>
UserId == <<"U", "s", "e", "r">>
Configs ==
    { [agents |-> <<>>, supervisor |-> <<>>, max_iterations |-> 1],
      [agents |-> <<A1, A2>>, supervisor |-> None, max_iterations |-> 1],
      [agents |-> <<A2, A1>>, supervisor |-> <<"z">>, max_iterations |-> 1],
      [agents |-> <<S0, A1>>, supervisor |-> S0, max_iterations |-> 0],
      [agents |-> <<S0, A1, UserId>>, supervisor |-> S0, max_iterations |-> 1],
      [agents |-> <<S0, UserId>>, supervisor |-> S0, max_iterations |-> MaxIter] }

U1 == <<"h", "t", "t", "p", "1">>
U2 == <<"h", "t", "t", "p", "2">>
Urls == { U1, U2 }

\* what the supervisor's get_response produces: a text, an exception of
\* class Exception ("raise"), or a KeyboardInterrupt ("interrupt")
RouterOutcomes ==
    { [kind |-> "text", text |-> t] :
        t \in { COMPLETE, <<" ">> \o A1 \o <<" ">>, UserId } }
    \cup { [kind |-> "raise", text |-> <<"t", "o">>] }
    \cup { [kind |-> "interrupt", text |-> <<>>] }

\* what a member agent's get_response produces: the empty text, a text of
\* white space (non-empty, and empty once stripped), an exception of class
\* Exception ("raise"), a KeyboardInterrupt ("interrupt"), or another
\* BaseException that is not an Exception, such as asyncio.CancelledError or
\* SystemExit ("fatal")
Blank == <<" ">>
AgentOutcomes ==
    { [kind |-> "text", text |-> t] : t \in { <<>>, Blank } }
    \cup { [kind |-> "raise", text |-> <<"b", "o", "o", "m">>] }
    \cup { [kind |-> "interrupt", text |-> <<>>], [kind |-> "fatal", text |-> <<>>] }

\* what the tool gateway does on one invocation: execute() result or
\* exception, and for a denial what authorize() does
AuthDenial ==
    <<"x", " ", "A", "u", "t", "h", "o", "r", "i", "z", "a", "t", "i", "o", "n", " ",
      "R", "E", "Q", "U", "I", "R", "E", "D">>
ToolOutcomes ==
    { [kind |-> "ok", text |-> <<"v">>, auth |-> "none", url |-> None] }
    \cup { [kind |-> "denied", text |-> AuthDenial, auth |-> "url", url |-> u] :
             u \in Urls \cup {None} }
    \cup { [kind |-> "denied", text |-> AuthDenial, auth |-> a, url |-> None] :
             a \in {"raise"} }
    \cup { [kind |-> "denied", text |-> <<"f", "o", "r", "b">>, auth |-> "none", url |-> None] }
    \cup { [kind |-> "error", text |-> <<"5", "0", "0">>, auth |-> "none", url |-> None] }

\* the request given on the command line (lines 373-379): the arguments
\* joined by spaces, never empty, taken as they are
Requests ==
    { <<"h", "i", " ">>, <<"e", "x", "i", "t">> }

\* lines typed at the prompt
Lines ==
    { <<"\t", "h", "i">>, <<"U+2003", "\t">>,
      <<"R", "e", "s", "e", "t">>, <<"c", "o", "n", "t", "i", "n", "u", "e">>,
      <<"E", "X", "I", "T">> }

VARIABLES
    agents,          \* self.agents: registered agent ids, in registration order
    supervisor_id,   \* config routing.supervisor (None when absent)
    max_iterations,  \* config routing.max_iterations
    conversation,    \* self.conversation
    auth_required,   \* self.auth_required
    pc,              \* control point of main()/process_request: "start" after
                     \* initialize(), "idle" at the prompt, "loop", "route",
                     \* "agent", "single" inside a call, "done" at its return,
                     \* "exited" when main() has returned, "aborted" when an
                     \* exception left it
    responses,       \* process_request's local list / its return value
    iteration,       \* number of loop iterations completed in this call
    route,           \* agent id being executed
    response,        \* value returned by the last _execute_agent
    tools_used,      \* tool invocations made inside the current get_response
    inputs,          \* lines read so far by main()
    last_cmd,        \* which branch of main() the last line took
    \* history of the current process_request call
    auth_at_entry,   \* self.auth_required when the call started
    conv_at_entry,   \* self.conversation when the call started
    request_text,    \* the user_input argument of the latest call
    router_calls,    \* number of _get_route calls made in this call
    router_raw,      \* the supervisor outcome behind the last route
    executed,        \* agent ids passed to agent.get_response in this call
    agent_raw,       \* the agent outcome behind the last response
    auth_after_exec, \* self.auth_required when the last routed agent returned
    \* history of the session
    turns,           \* the conversation as tagged turns, in append order
    tool_raw,        \* the gateway outcome of the last tool_function call
    last_url,        \* URL the latest handshake yielded, None once the slot is emptied
    first_url        \* URL the first handshake of the awaited get_response yielded

config == <<agents, supervisor_id, max_iterations>>
history == <<auth_at_entry, conv_at_entry, request_text, router_calls, router_raw, executed,
             agent_raw, auth_after_exec>>
vars == <<agents, supervisor_id, max_iterations, conversation, auth_required, pc,
          responses, iteration, route, response, tools_used,
          inputs, last_cmd, auth_at_entry, conv_at_entry, request_text,
          router_calls, router_raw, executed, agent_raw, auth_after_exec,
          turns, tool_raw, last_url, first_url>>

AgentIds == { agents[i] : i \in DOMAIN agents }

Init ==
    /\ \E c \in Configs :
          /\ agents = c.agents
          /\ supervisor_id = c.supervisor
          /\ max_iterations = c.max_iterations
    /\ conversation = <<>>
    /\ auth_required = None
    /\ pc = "start"
    /\ responses = <<>>
    /\ iteration = 0
    /\ route = None
    /\ response = None
    /\ tools_used = 0
    /\ inputs = 0
    /\ last_cmd = "none"
    /\ auth_at_entry = None
    /\ conv_at_entry = <<>>
    /\ request_text = None
    /\ router_calls = 0
    /\ router_raw = [kind |-> "none", text |-> <<>>]
    /\ executed = <<>>
    /\ agent_raw = [kind |-> "none", text |-> <<>>]
    /\ auth_after_exec = None
    /\ turns = <<>>
    /\ tool_raw = [kind |-> "none", text |-> <<>>, auth |-> "none", url |-> None]
    /\ last_url = None
    /\ first_url = None

\* ------------------------------------------------------------ tool_function
\* lines 210-247: value returned to the agent and the new self.auth_required
ToolDeniedFirstWriterWins(o, auth) ==
    IF Contains(Lower(o.text), AuthPhrase) /\ o.auth = "url"
    THEN [ret |-> AuthMessage(o.url), auth |-> IF Truthy(auth) THEN auth ELSE o.url]
    ELSE [ret |-> AuthMarker \o <<" ">> \o DeniedPrefix \o o.text, auth |-> auth]
ToolDeniedCaseSensitive(o, auth) ==
    IF Contains(o.text, AuthPhrase) /\ o.auth = "url"
    THEN [ret |-> AuthMessage(o.url), auth |-> o.url]
    ELSE [ret |-> AuthMarker \o <<" ">> \o DeniedPrefix \o o.text, auth |-> auth]
ToolDenied(o, auth) ==
    IF Contains(Lower(o.text), AuthPhrase) /\ o.auth = "url"
    THEN [ret |-> AuthMessage(o.url), auth |-> o.url]
    ELSE [ret |-> AuthMarker \o <<" ">> \o DeniedPrefix \o o.text, auth |-> auth]

ToolFunctionErrorSetsPending(o, auth) ==
    CASE o.kind = "ok" -> [ret |-> Str(o.text), auth |-> auth]
      [] o.kind = "denied" -> ToolDenied(o, auth)
      [] OTHER -> [ret |-> o.text, auth |-> o.text]
ToolFunction(o, auth) ==
    CASE o.kind = "ok" -> [ret |-> Str(o.text), auth |-> auth]
      [] o.kind = "denied" -> ToolDenied(o, auth)
      [] OTHER -> [ret |-> o.text, auth |-> auth]

NoTool == [kind |-> "none", text |-> <<>>, auth |-> "none", url |-> None]

\* the string the last tool_function call returned to the agent (None when
\* the awaited get_response has made no invocation); lines 224, 239, 242 and
\* 247 compute it from the gateway outcome alone
tool_result ==
    IF tool_raw = NoTool THEN None ELSE ToolFunction(tool_raw, auth_required).ret

\* lines 230-236: the handshake was made and returned an object whose url is
\* a string
YieldsUrl(o) ==
    /\ o.kind = "denied"
    /\ o.auth = "url"
    /\ o.url # None
    /\ Contains(Lower(o.text), AuthPhrase)

\* one tool invocation made by an agent (supervisor or member) while the
\* loop is suspended in its get_response
ToolCall(o) ==
    /\ pc \in {"route", "agent", "single"}
    /\ tools_used < MaxTools
    /\ tools_used' = tools_used + 1
    /\ auth_required' = ToolFunction(o, auth_required).auth
    /\ tool_raw' = o
    /\ last_url' = IF YieldsUrl(o) THEN o.url
                   ELSE IF Truthy(auth_required') THEN last_url ELSE None
    /\ first_url' = IF YieldsUrl(o)
                    THEN IF first_url = None THEN o.url ELSE first_url
                    ELSE IF Truthy(auth_required') THEN first_url ELSE None
    /\ UNCHANGED <<config, conversation, pc, responses, iteration, route, response,
                   inputs, last_cmd, history, turns>>

\* the content of the one user-role message the awaited get_response was
\* given: _get_route (311-312) joins the conversation, _execute_agent
\* (327-347) sends full_context; the conversation is not written while the
\* call is awaited, so the content sent is the one computed now
message ==
    IF pc = "route" THEN RouterMessage(conversation)
    ELSE IF pc \in {"agent", "single"} THEN FullContext(conversation)
    ELSE None

\* ---------------------------------------------------------- process_request
\* line 269
NoSupervisor == ~Truthy(supervisor_id) \/ supervisor_id \notin AgentIds

\* line 272: next(iter(self.agents))
LastAgent == agents[Len(agents)]
FirstAgent == agents[1]

\* line 281: for _ in range(max_iterations)
LoopContinuesForever == TRUE
LoopContinuesOffByOne == iteration <= max_iterations
LoopContinues == iteration < max_iterations

\* line 291
LoopIgnoresComplete(r) == r # COMPLETE /\ r \notin AgentIds
LoopBreaksOnCompleteOnly(r) == r = COMPLETE
LoopBreaks(r) == r = COMPLETE \/ r \notin AgentIds

\* lines 310-319: the bare except at 318 catches every BaseException
GetRoute(o) == IF o.kind # "text" THEN COMPLETE ELSE Strip(Str(o.text))

\* lines 347-358
ExecuteAgentSwallows(o) == IF o.kind = "raise" THEN None ELSE Str(o.text)
ExecuteAgentResult(o) == IF o.kind = "raise" THEN ErrorPrefix \o Str(o.text) ELSE Str(o.text)

\* lines 347-358: _execute_agent returns a text when get_response returns or
\* raises an Exception; any other BaseException passes `except Exception`
Returns(o) == o.kind \in {"text", "raise"}

\* lines 258-278: the call up to its first suspension point
StartRequest(user_input) ==
    /\ responses' = <<>>
    /\ conversation' = Append(conversation, UserTurn(user_input))
    /\ iteration' = 0
    /\ response' = None
    /\ tools_used' = 0
    /\ auth_at_entry' = auth_required'
    /\ conv_at_entry' = conversation
    /\ request_text' = user_input
    /\ router_calls' = 0
    /\ router_raw' = [kind |-> "none", text |-> <<>>]
    /\ agent_raw' = [kind |-> "none", text |-> <<>>]
    /\ auth_after_exec' = None
    /\ IF NoSupervisor
       THEN IF agents # <<>>
            THEN /\ route' = FirstAgent
                 /\ executed' = <<FirstAgent>>
                 /\ pc' = "single"
            ELSE /\ route' = None
                 /\ executed' = <<>>
                 /\ pc' = "done"
       ELSE /\ route' = None
            /\ executed' = <<>>
            /\ pc' = "loop"
    /\ tool_raw' = NoTool
    /\ first_url' = None
    /\ turns' = Append(turns, [kind |-> "user", agent |-> None, text |-> user_input])
    /\ UNCHANGED config

\* lines 273-276: the fallback agent's get_response returns
SingleReturnReplaces(o) ==
    /\ pc = "single"
    /\ Returns(o)
    /\ response' = ExecuteAgentResult(o)
    /\ responses' = IF ~Truthy(response') THEN responses
                    ELSE IF Truthy(auth_required)
                         THEN Append(responses, AuthMessage(auth_required))
                         ELSE Append(responses, response')
    /\ pc' = "done"
    /\ agent_raw' = o
    /\ UNCHANGED <<config, conversation, auth_required, iteration, route, tools_used,
                   inputs, last_cmd, auth_at_entry, conv_at_entry, request_text,
                   router_calls, router_raw, executed, auth_after_exec,
                   turns, last_url, first_url>>
    /\ tool_raw' = NoTool
SingleReturn(o) ==
    /\ pc = "single"
    /\ Returns(o)
    /\ response' = ExecuteAgentResult(o)
    /\ responses' = IF Truthy(response') THEN Append(responses, response') ELSE responses
    /\ pc' = "done"
    /\ agent_raw' = o
    /\ UNCHANGED <<config, conversation, auth_required, iteration, route, tools_used,
                   inputs, last_cmd, auth_at_entry, conv_at_entry, request_text,
                   router_calls, router_raw, executed, auth_after_exec,
                   turns, last_url, first_url>>
    /\ tool_raw' = NoTool

\* lines 281-288: top of one loop iteration, up to the supervisor call
LoopHead ==
    /\ pc = "loop"
    /\ IF ~LoopContinues
       THEN /\ pc' = "done"
            /\ UNCHANGED responses
       ELSE IF Truthy(auth_required)
            THEN /\ responses' = Append(responses, AuthMessage(auth_required))
                 /\ pc' = "done"
            ELSE /\ pc' = "route"
                 /\ UNCHANGED responses
    /\ tools_used' = 0
    /\ router_raw' = [kind |-> "none", text |-> <<>>]
    /\ agent_raw' = [kind |-> "none", text |-> <<>>]
    /\ UNCHANGED <<config, conversation, auth_required, iteration, route, response,
                   inputs, last_cmd, auth_at_entry, conv_at_entry,
                   request_text, router_calls, executed, auth_after_exec,
                   turns, tool_raw, last_url>>
    /\ first_url' = None

\* lines 288-295 with _get_route (310-319) and the lookup of _execute_agent
\* (323-325): the supervisor's get_response returns
GetRouteReturn(o) ==
    /\ pc = "route"
    /\ route' = GetRoute(o)
    /\ router_calls' = router_calls + 1
    /\ router_raw' = o
    /\ tools_used' = 0
    /\ IF LoopBreaks(route')
       THEN /\ pc' = "done"
            /\ UNCHANGED <<executed, response, iteration>>
       ELSE IF route' \notin AgentIds
            THEN /\ response' = None
                 /\ iteration' = iteration + 1
                 /\ pc' = "loop"
                 /\ UNCHANGED executed
            ELSE /\ executed' = Append(executed, route')
                 /\ pc' = "agent"
                 /\ UNCHANGED <<response, iteration>>
    /\ UNCHANGED <<config, conversation, auth_required, responses, inputs, last_cmd,
                   auth_at_entry, conv_at_entry, request_text, agent_raw,
                   auth_after_exec, turns, last_url>>
    /\ tool_raw' = NoTool
    /\ first_url' = None

\* lines 295-306: the routed agent's get_response returns
AgentReturn(o) ==
    /\ pc = "agent"
    /\ Returns(o)
    /\ response' = ExecuteAgentResult(o)
    /\ IF Truthy(response')
       THEN IF Truthy(auth_required)
            THEN /\ responses' = Append(responses, AuthMessage(auth_required))
                 /\ pc' = "done"
                 /\ UNCHANGED <<conversation, iteration, turns>>
            ELSE /\ responses' = Append(responses, response')
                 /\ conversation' = Append(conversation, AgentTurn(route, response'))
                 /\ turns' = Append(turns, [kind |-> "agent", agent |-> route,
                                            text |-> response'])
                 /\ iteration' = iteration + 1
                 /\ pc' = "loop"
       ELSE /\ iteration' = iteration + 1
            /\ pc' = "loop"
            /\ UNCHANGED <<responses, conversation, turns>>
    /\ router_raw' = [kind |-> "none", text |-> <<>>]
    /\ agent_raw' = o
    /\ auth_after_exec' = auth_required
    /\ tool_raw' = NoTool
    /\ UNCHANGED <<config, auth_required, route, tools_used, inputs, last_cmd,
                   auth_at_entry, conv_at_entry, request_text, router_calls, executed,
                   last_url, first_url>>

\* lines 347-355, 275, 295 and 441-546: the awaited get_response of a member
\* agent raises a BaseException that is not an Exception.  Neither line 355
\* nor process_request catches it, so the call is abandoned with what it wrote
\* so far.  In interactive mode a KeyboardInterrupt is caught at line 542 and
\* ends the loop (544); anything else, and everything in single-request mode
\* (line 399 stands in no try), leaves main() as an uncaught exception.
ExecuteAbort(o) ==
    /\ pc \in {"agent", "single"}
    /\ ~Returns(o)
    /\ pc' = IF o.kind = "interrupt" /\ last_cmd # "argv" THEN "exited" ELSE "aborted"
    /\ agent_raw' = o
    /\ tool_raw' = NoTool
    /\ UNCHANGED <<config, conversation, auth_required, responses, iteration, route,
                   response, tools_used, inputs, last_cmd, auth_at_entry, conv_at_entry,
                   request_text, router_calls, router_raw, executed, auth_after_exec,
                   turns, last_url, first_url>>

\* --------------------------------------------------------------------- main
\* lines 394-396: a request on the command line selects single-request mode
ArgvRequest ==
    \E request \in Requests :
        /\ pc = "start"
        /\ last_cmd' = "argv"
        /\ UNCHANGED <<auth_required, inputs, last_url>>
        /\ StartRequest(request)

\* lines 394 and 433-439: no request on the command line; the banner is
\* printed and the prompt loop begins
Interactive ==
    /\ pc = "start"
    /\ pc' = "idle"
    /\ UNCHANGED <<config, conversation, auth_required, responses, iteration, route,
                   response, tools_used, inputs, last_cmd, history,
                   turns, tool_raw, last_url, first_url>>

\* lines 507-540 and 399-430: the returned list is printed and the call's
\* locals are gone; back to the prompt in interactive mode, while in
\* single-request mode main() returns
Display ==
    /\ pc = "done"
    /\ pc' = IF last_cmd = "argv" THEN "exited" ELSE "idle"
    /\ responses' = <<>>
    /\ iteration' = 0
    /\ route' = None
    /\ response' = None
    /\ tools_used' = 0
    /\ auth_at_entry' = None
    /\ conv_at_entry' = <<>>
    /\ router_calls' = 0
    /\ router_raw' = [kind |-> "none", text |-> <<>>]
    /\ executed' = <<>>
    /\ agent_raw' = [kind |-> "none", text |-> <<>>]
    /\ auth_after_exec' = None
    /\ first_url' = None
    /\ UNCHANGED <<config, conversation, auth_required, inputs, last_cmd, request_text,
                   turns, tool_raw, last_url>>

\* line 442
ReadLine(line) == Strip(line)

Word(w) == CASE w = "exit" -> <<"e", "x", "i", "t">>
             [] w = "reset" -> <<"r", "e", "s", "e", "t">>
             [] OTHER -> <<"c", "o", "n", "t", "i", "n", "u", "e">>

\* lines 444-505: which branch of the loop body a line takes
Command(user_input) ==
    CASE Lower(user_input) = Word("exit") -> "exit"
      [] Lower(user_input) = Word("reset") -> "reset"
      [] Lower(user_input) = Word("continue") /\ Truthy(auth_required) -> "continue"
      [] user_input = <<>> -> "empty"
      [] OTHER -> "request"

\* lines 448-449
ResetDropsLast ==
    IF conversation = <<>> THEN <<>> ELSE SubSeq(conversation, 1, Len(conversation) - 1)
ResetConversation == <<>>
ResetAuthKept == auth_required
ResetAuth == None

\* lines 457-461
RECURSIVE LastUserMsg(_)
LastUserMsg(conv) ==
    IF conv = <<>> THEN None
    ELSE IF StartsWith(conv[Len(conv)], UserPrefix)
         THEN Strip(SubSeq(conv[Len(conv)], Len(UserPrefix) + 1, Len(conv[Len(conv)])))
         ELSE LastUserMsg(SubSeq(conv, 1, Len(conv) - 1))

Prompt(line, cmd) ==
    /\ pc = "idle"
    /\ inputs < MaxInputs
    /\ Command(ReadLine(line)) = cmd
    /\ inputs' = inputs + 1
    /\ last_cmd' = cmd

CmdExit ==
    \E line \in Lines :
        /\ Prompt(line, "exit")
        /\ pc' = "exited"
        /\ UNCHANGED <<config, conversation, auth_required, responses, iteration, route,
                       response, tools_used, history,
                       turns, tool_raw, last_url, first_url>>

\* lines 442 and 542-544: input() raises KeyboardInterrupt at the prompt
CmdInterrupt ==
    /\ pc = "idle"
    /\ pc' = "exited"
    /\ last_cmd' = "interrupt"
    /\ UNCHANGED <<config, conversation, auth_required, responses, iteration, route,
                   response, tools_used, inputs, history,
                   turns, tool_raw, last_url, first_url>>

CmdReset ==
    \E line \in Lines :
        /\ Prompt(line, "reset")
        /\ conversation' = ResetConversation
        /\ auth_required' = ResetAuth
        /\ turns' = <<>>
        /\ last_url' = None
        /\ UNCHANGED <<config, pc, responses, iteration, route, response, tools_used,
                       history, tool_raw, first_url>>

CmdContinue ==
    \E line \in Lines :
        /\ Prompt(line, "continue")
        /\ auth_required' = None
        /\ last_url' = None
        /\ IF Truthy(LastUserMsg(conversation))
           THEN StartRequest(LastUserMsg(conversation))
           ELSE UNCHANGED <<config, conversation, pc, responses, iteration, route,
                            response, tools_used, history,
                            turns, tool_raw, first_url>>

CmdEmpty ==
    \E line \in Lines :
        /\ Prompt(line, "empty")
        /\ UNCHANGED <<config, conversation, auth_required, pc, responses, iteration,
                       route, response, tools_used, history,
                       turns, tool_raw, last_url, first_url>>

CmdRequest ==
    \E line \in Lines :
        /\ Prompt(line, "request")
        /\ UNCHANGED <<auth_required, last_url>>
        /\ StartRequest(ReadLine(line))

Next ==
    \/ ArgvRequest
    \/ Interactive
    \/ CmdInterrupt
    \/ CmdExit
    \/ CmdReset
    \/ CmdContinue
    \/ CmdEmpty
    \/ CmdRequest
    \/ LoopHead
    \/ \E o \in RouterOutcomes : GetRouteReturn(o)
    \/ \E o \in AgentOutcomes : AgentReturn(o)
    \/ \E o \in AgentOutcomes : SingleReturn(o)
    \/ \E o \in AgentOutcomes : ExecuteAbort(o)
    \/ \E o \in ToolOutcomes : ToolCall(o)
    \/ Display

Spec == Init /\ [][Next]_vars

\* ------------------------------------------------------------------ claims
Last(q) == q[Len(q)]
InCall == pc \in {"loop", "route", "agent", "single", "done"}
AgentReturns == pc = "agent" /\ pc' \in {"loop", "done"}
RouterReturns == pc = "route" /\ pc' # "route"

\* C1 (as claimed): a call entered with AuthorizationPending set makes no
\* Router call, executes no agent, and returns exactly the authorization
\* message carrying the pending URL.
C1_PendingShortCircuits ==
    (pc = "done" /\ Truthy(auth_at_entry)) =>
        /\ router_calls = 0
        /\ executed = <<>>
        /\ responses = <<AuthMessage(auth_at_entry)>>

\* C2: with a registered supervisor, one call executes at most
\* max_iterations agent turns and makes at most max_iterations Router calls.
C2_IterationCap ==
    ~NoSupervisor => (Len(executed) <= max_iterations /\ router_calls <= max_iterations)

C2_Witness ==
    /\ pc = "done"
    /\ ~NoSupervisor
    /\ max_iterations >= 2
    /\ Len(executed) = max_iterations
    /\ router_calls = max_iterations

\* C3 (as claimed): without a registered supervisor a call executes exactly
\* one agent, the first registered, makes no Router call and returns at most
\* one response.
C3_FallbackExecutesOne ==
    (pc = "done" /\ NoSupervisor) =>
        /\ Len(executed) = 1
        /\ executed[1] = agents[1]
        /\ router_calls = 0
        /\ Len(responses) <= 1

\* C3 (amended): the same when at least one agent is registered; with no
\* registered agent the call executes none and returns the empty list.
C3_FallbackAmended ==
    (pc = "done" /\ NoSupervisor) =>
        /\ router_calls = 0
        /\ Len(responses) <= 1
        /\ IF agents # <<>>
           THEN executed = <<agents[1]>>
           ELSE executed = <<>> /\ responses = <<>>

C3_Witness ==
    /\ pc = "done"
    /\ NoSupervisor
    /\ Len(agents) = 2
    /\ executed = <<agents[1]>>
    /\ Len(responses) = 1

\* C4 (as claimed): when a routed agent returns with AuthorizationPending
\* set, whatever its text and on whichever iteration, the call makes no
\* further Router call and returns a list ending with the authorization message.
C4_InterruptEndsWithAuth ==
    (pc = "done" /\ Truthy(auth_after_exec)) =>
        /\ router_calls = Len(executed)
        /\ responses # <<>>
        /\ Last(responses) = AuthMessage(auth_after_exec)

\* C5 (as claimed): a routed agent's turn is appended to the conversation
\* exactly when AuthorizationPending is not set on its return; otherwise the
\* conversation is left alone and the authorization message takes its place
\* in the responses.
C5_AppendIffNoAuth ==
    [][AgentReturns =>
        IF Truthy(auth_required)
        THEN /\ conversation' = conversation
             /\ responses' = Append(responses, AuthMessage(auth_required))
        ELSE conversation' = Append(conversation, AgentTurn(route, response'))]_vars

\* C6 (as claimed): in a call entered with AuthorizationPending set, in
\* either mode, no agent is executed and the flag stays set.
C6_PendingBlocksAgents ==
    (InCall /\ Truthy(auth_at_entry)) => (executed = <<>> /\ Truthy(auth_required))

\* C7: when the first Router call of a call returns COMPLETE, the call
\* returns there with no agent executed, an empty responses list, and the
\* conversation extended by the user turn only.
C7_CompleteFirst ==
    [][(RouterReturns /\ router_calls = 0 /\ route' = COMPLETE) =>
        /\ pc' = "done"
        /\ executed' = <<>>
        /\ responses' = <<>>
        /\ conversation' = Append(conv_at_entry, UserTurn(request_text))]_vars

C7_Witness ==
    /\ pc = "done"
    /\ router_calls = 1
    /\ router_raw.kind = "text"
    /\ route = COMPLETE
    /\ conversation = Append(conv_at_entry, UserTurn(request_text))
    /\ conv_at_entry # <<>>

\* C8: a supervisor failure or a token that is no registered agent id ends
\* the loop exactly as COMPLETE does: on that step the call returns, no agent
\* is executed, and responses, conversation and AuthorizationPending are left
\* as they were, so the three outcomes give the same result.
C8_UnknownAndFailureAsComplete ==
    [][(RouterReturns /\ (router_raw'.kind = "raise" \/ Strip(router_raw'.text) \notin AgentIds)) =>
        /\ pc' = "done"
        /\ UNCHANGED <<conversation, responses, auth_required, executed>>]_vars

C8_Witness ==
    /\ pc = "done"
    /\ router_calls = 2
    /\ router_raw.kind = "text"
    /\ router_raw.text # COMPLETE
    /\ Strip(router_raw.text) \notin AgentIds
    /\ Len(executed) = 1

\* the awaited execution of the routed agent fails: its get_response raises
AgentFails == pc = "agent" /\ pc' # "agent" /\ agent_raw'.kind # "text"

\* C9 (as claimed): a routed agent's failure yields "Error: <message>", which
\* is appended to the responses and to the conversation as that agent's turn,
\* leaves AuthorizationPending as it was, and the loop goes on.
C9_ErrorIsNormalTurn ==
    [][AgentFails =>
        /\ response' = ErrorPrefix \o agent_raw'.text
        /\ responses' = Append(responses, response')
        /\ conversation' = Append(conversation, AgentTurn(route, response'))
        /\ auth_required' = auth_required
        /\ pc' = "loop"]_vars

\* C9 (amended): the same for a failure of class Exception that returns while
\* AuthorizationPending is not set.  With the flag set the error text is
\* replaced by the authorization message, nothing is appended to the
\* conversation and the loop stops.  A failure that is not of class Exception
\* is not recovered: the call is abandoned, no response is collected and
\* nothing is appended.
C9_ErrorAmended ==
    [][/\ (AgentFails /\ agent_raw'.kind = "raise" /\ ~Truthy(auth_required)) =>
             /\ response' = ErrorPrefix \o agent_raw'.text
             /\ responses' = Append(responses, response')
             /\ conversation' = Append(conversation, AgentTurn(route, response'))
             /\ auth_required' = auth_required
             /\ pc' = "loop"
       /\ (AgentFails /\ agent_raw'.kind = "raise" /\ Truthy(auth_required)) =>
             /\ responses' = Append(responses, AuthMarker \o <<" ">> \o auth_required)
             /\ conversation' = conversation
             /\ auth_required' = auth_required
             /\ pc' = "done"
       /\ (AgentFails /\ agent_raw'.kind # "raise") =>
             /\ pc' \in {"exited", "aborted"}
             /\ UNCHANGED <<responses, conversation, auth_required>>]_vars

\* a routed agent raised an Exception with no authorization pending: the
\* error text is the latest response and the latest conversation entry, and
\* the loop goes on
C9_Witness ==
    /\ pc = "loop"
    /\ agent_raw.kind = "raise"
    /\ iteration < max_iterations
    /\ ~Truthy(auth_required)
    /\ responses # <<>>
    /\ Last(responses) = ErrorPrefix \o agent_raw.text
    /\ Last(conversation) = AgentTurn(route, Last(responses))

\* C10: reset empties the conversation and clears AuthorizationPending
\* whatever the state, a second reset changes nothing more, and a request
\* made right after a reset starts from a conversation holding only its own
\* user turn.
C10_Reset ==
    [][/\ (last_cmd' = "reset" /\ inputs' = inputs + 1) =>
            /\ conversation' = <<>>
            /\ auth_required' = None
            /\ (last_cmd = "reset" => UNCHANGED <<conversation, auth_required>>)
       /\ (last_cmd = "reset" /\ pc = "idle" /\ pc' \in {"loop", "single", "done"}) =>
            conversation' = <<UserTurn(request_text')>>]_vars

C10_Witness ==
    /\ last_cmd = "reset"
    /\ request_text # None
    /\ conversation = <<>>
    /\ auth_required = None

IsPrefix(p, q) == Len(p) <= Len(q) /\ SubSeq(q, 1, Len(p)) = p

\* the step is main()'s reset branch
ResetStep == pc = "idle" /\ inputs' = inputs + 1 /\ last_cmd' = "reset"

\* C11: the conversation is append-only: across every step of a request, a
\* continue, a tool invocation or an agent execution the conversation before
\* is a prefix of the conversation after; only reset shrinks it, and reset
\* empties it entirely.
C11_AppendOnly ==
    [][IF ResetStep
       THEN conversation' = <<>>
       ELSE IsPrefix(conversation, conversation')]_vars

\* a continue re-submitted a request onto a conversation that already held
\* entries, and an agent turn was appended after it
C11_Witness ==
    /\ pc = "done"
    /\ last_cmd = "continue"
    /\ conv_at_entry # <<>>
    /\ Len(conversation) >= Len(conv_at_entry) + 2
    /\ IsPrefix(conv_at_entry, conversation)


\* the step reads one line at the prompt
InputStep == pc = "idle" /\ inputs' = inputs + 1

IsContinueWord(text) == Lower(text) = <<"c", "o", "n", "t", "i", "n", "u", "e">>

\* the step starts a process_request call
CallStarts == pc \in {"idle", "start"} /\ pc' \in {"loop", "single", "done"}

\* the text of the most recent turn of kind user
UserTurnIndexes(ts) == { k \in DOMAIN ts : ts[k].kind = "user" }
LastUserTurnText(ts) ==
    ts[CHOOSE k \in UserTurnIndexes(ts) : \A j \in UserTurnIndexes(ts) : j <= k].text

\* C12 (as claimed): in interactive mode continue is a command in every
\* state: the literal input continue is never the text of a request nor of a
\* user turn of the conversation, and the command clears
\* AuthorizationPending and re-submits the text of the most recent user turn
\* to process_request.
C12_ContinueInEveryState ==
    [][InputStep =>
          /\ last_cmd' = "request" => ~IsContinueWord(request_text')
          /\ \A i \in DOMAIN turns' :
                turns'[i].kind = "user" => ~IsContinueWord(turns'[i].text)
          /\ last_cmd' = "continue" =>
                /\ auth_required' = None
                /\ UserTurnIndexes(turns) # {} =>
                      (CallStarts /\ request_text' = LastUserTurnText(turns))]_vars


\* the latest tool invocation was denied with a text containing
\* "authorization required" (in any letter case)
DeniedForAuthorization ==
    tool_raw.kind = "denied" /\ Contains(Lower(tool_raw.text), AuthPhrase)

\* C13: after a tool invocation denied with a text containing "authorization
\* required" whose handshake yielded a URL, AuthorizationPending is exactly
\* that URL and the string returned to the agent contains that URL.
C13_HandshakeSetsUrl ==
    (DeniedForAuthorization /\ tool_raw.auth = "url" /\ tool_raw.url # None) =>
        /\ auth_required = tool_raw.url
        /\ Contains(tool_result, tool_raw.url)

\* a member agent's tool invocation was denied and the handshake yielded U2
C13_Witness ==
    /\ pc = "agent"
    /\ DeniedForAuthorization
    /\ tool_raw.auth = "url"
    /\ tool_raw.url = U2
    /\ auth_required = U2
    /\ tool_result = AuthMarker \o <<" ">> \o U2


IsSuffix(p, q) == Len(p) <= Len(q) /\ SubSeq(q, Len(q) - Len(p) + 1, Len(q)) = p

\* the lines that open and close the block around an agent turn
BlockOpen ==
    <<"\n", "[", "P", "r", "e", "v", "i", "o", "u", "s", " ", "A", "g", "e", "n", "t",
      " ", "O", "u", "t", "p", "u", "t", "]", "\n">>
BlockClose ==
    <<"\n", "[", "E", "n", "d", " ", "o", "f", " ", "P", "r", "e", "v", "i", "o", "u",
      "s", " ", "A", "g", "e", "n", "t", " ", "O", "u", "t", "p", "u", "t", "]">>

\* the rendering of one tagged turn
RenderTurn(t) ==
    IF t.kind = "user"
    THEN <<"U", "s", "e", "r", ":", " ">> \o t.text
    ELSE BlockOpen \o t.agent \o <<":", " ">> \o t.text \o BlockClose

RECURSIVE RenderTurns(_)
RenderTurns(ts) ==
    IF ts = <<>> THEN <<>>
    ELSE IF Len(ts) = 1 THEN RenderTurn(ts[1])
    ELSE RenderTurn(ts[1]) \o <<"\n">> \o RenderTurns(Tail(ts))

\* C14 (as claimed): the context given to a member agent ends with the turns
\* of the conversation in append order, each user turn as "User: <text>"
\* unwrapped and each agent turn wrapped in the [Previous Agent Output] block
\* around "<agentId>: <text>", whatever the agent identifier and the text.
C14_RenderByTurnKind ==
    pc \in {"agent", "single"} => IsSuffix(RenderTurns(turns), message)


\* the step is one tool invocation
ToolStep == tools_used' = tools_used + 1

\* C15 (as claimed): every tool invocation that fails with a permission
\* denial sets AuthorizationPending, and once the flag is set the loop
\* observes it when the routed agent's turn returns and interrupts the call
\* with the authorization message.
C15_EveryDenialSetsPending ==
    [][/\ (ToolStep /\ tool_raw'.kind = "denied") => Truthy(auth_required')
       /\ (AgentReturns /\ Truthy(auth_required)) =>
             /\ pc' = "done"
             /\ responses' # <<>>
             /\ Last(responses') = AuthMarker \o <<" ">> \o auth_required]_vars


\* C16: a tool invocation that succeeds, or fails with a failure other than
\* a permission denial, leaves AuthorizationPending and the conversation
\* unchanged and does not move the loop; a failure returns the raw error text.
\* The turn of a routed agent whose latest invocation ended so, with no
\* authorization pending, is a normal turn: a non-empty text is returned,
\* appended to the conversation, and the loop goes on.
C16_OtherOutcomesLeaveState ==
    [][/\ (ToolStep /\ tool_raw'.kind \in {"ok", "error"}) =>
             /\ auth_required' = auth_required
             /\ conversation' = conversation
             /\ pc' = pc
             /\ tool_raw'.kind = "error" => tool_result' = tool_raw'.text
       /\ (AgentReturns /\ tool_raw.kind \in {"ok", "error"}
              /\ ~Truthy(auth_required) /\ Truthy(response')) =>
             /\ pc' = "loop"
             /\ Last(responses') = response'
             /\ conversation' = Append(conversation, route \o <<":", " ">> \o response')]_vars

\* a routed agent's tool invocation failed with a generic error
C16_Witness ==
    /\ pc = "agent"
    /\ tool_raw.kind = "error"
    /\ tool_result = <<"5", "0", "0">>
    /\ auth_required = None
    /\ conversation = conv_at_entry \o <<UserPrefix \o <<" ">> \o request_text>>


\* C17: AuthorizationPending is one slot and the last writer wins: whenever
\* tool invocations have yielded authorization URLs since the slot was last
\* emptied, the slot holds the URL of the latest of them, and an
\* authorization message that ends the list returned by process_request
\* carries that URL.
C17_LastWriterWins ==
    /\ last_url # None => auth_required = last_url
    /\ (pc = "done" /\ ~NoSupervisor /\ responses # <<>>
          /\ StartsWith(Last(responses), AuthMarker)) =>
            /\ last_url # None
            /\ Last(responses) = AuthMarker \o <<" ">> \o last_url

\* within one turn of a routed agent two tool invocations yielded a URL each,
\* http1 and then http2; the slot holds http2 and the call returned the
\* authorization message carrying http2
C17_Witness ==
    /\ pc = "done"
    /\ ~NoSupervisor
    /\ auth_at_entry = None
    /\ agent_raw.kind = "text"
    /\ tools_used = 2
    /\ first_url = U1
    /\ last_url = U2
    /\ auth_required = U2
    /\ Last(responses) = AuthMarker \o <<" ">> \o U2


\* a measure of the work a call has left: the iterations not yet started,
\* then the stage inside the iteration, then the tool invocations the awaited
\* get_response can still make
Stages == 3 * (MaxTools + 1)
Rank ==
    CASE pc = "loop" -> (max_iterations - iteration) * Stages + Stages
      [] pc = "route" -> (max_iterations - iteration) * Stages
                           + 2 * (MaxTools + 1) + (MaxTools - tools_used)
      [] pc = "agent" -> (max_iterations - iteration) * Stages
                           + (MaxTools + 1) + (MaxTools - tools_used)
      [] pc = "single" -> (MaxTools + 1) + (MaxTools - tools_used)
      [] OTHER -> 0

\* the awaited agent execution does not return: it leaves the call with a
\* BaseException that is not an Exception
Aborts == pc \in {"agent", "single"} /\ pc' \in {"exited", "aborted"}

\* C18: every process_request call reaches its return, provided each Router
\* call and agent execution returns: while the call runs, each step (a Router
\* call or an agent execution returning, a tool invocation, the top of an
\* iteration) strictly decreases a measure that is never negative, whatever
\* the routing tokens and agent outcomes; and at the iteration cap the call
\* returns the responses collected so far, unchanged.
C18_CallTerminates ==
    [][(pc \in {"loop", "route", "agent", "single"} /\ ~Aborts) =>
          /\ Rank > 0
          /\ Rank' >= 0
          /\ Rank' < Rank
          /\ pc' \in {"loop", "route", "agent", "single", "done"}
          /\ (pc = "loop" /\ iteration >= max_iterations) =>
                (pc' = "done" /\ responses' = responses)]_vars

\* the call returned at the iteration cap with one response per iteration
C18_Witness ==
    /\ pc = "done"
    /\ ~NoSupervisor
    /\ max_iterations = MaxIter
    /\ iteration = max_iterations
    /\ Len(responses) = max_iterations
    /\ \A i \in DOMAIN responses : ~StartsWith(responses[i], AuthMarker)


\* C19 (as claimed): the message given to the supervisor is the rendering
\* member agents receive: every turn in order, user turns as "User: <text>"
\* and agent turns wrapped in the [Previous Agent Output] block.
C19_RouterGetsRendering ==
    pc = "route" => message = RenderTurns(turns)


\* the returned list without the authorization message that ends it, if any
ShownResponses ==
    IF responses # <<>> /\ StartsWith(Last(responses), AuthMarker)
    THEN SubSeq(responses, 1, Len(responses) - 1)
    ELSE responses

\* C20: when a call in supervisor mode returns, the returned responses
\* without a trailing authorization message are exactly the texts of the agent
\* turns the call appended to the conversation, in the same order: the call
\* appended its user turn and then one entry "<agentId>: <text>" per such
\* response.
C20_ResponsesAreAgentTurns ==
    (pc = "done" /\ ~NoSupervisor) =>
        /\ Len(conversation) = Len(conv_at_entry) + 1 + Len(ShownResponses)
        /\ Len(turns) = Len(conversation)
        /\ \A k \in DOMAIN ShownResponses :
              /\ turns[Len(conv_at_entry) + 1 + k].kind = "agent"
              /\ turns[Len(conv_at_entry) + 1 + k].text = ShownResponses[k]
              /\ turns[Len(conv_at_entry) + 1 + k].agent \in AgentIds
              /\ conversation[Len(conv_at_entry) + 1 + k] =
                    turns[Len(conv_at_entry) + 1 + k].agent \o <<":", " ">> \o ShownResponses[k]

\* a call returned one agent response followed by the authorization message
C20_Witness ==
    /\ pc = "done"
    /\ ~NoSupervisor
    /\ Len(responses) = 2
    /\ StartsWith(Last(responses), AuthMarker)
    /\ Len(conversation) = Len(conv_at_entry) + 2
    /\ Last(conversation) = route \o <<":", " ">> \o responses[1]


\* C21 (as claimed): whenever AuthorizationPending is set the conversation
\* holds at least one user turn, and a continue typed while an authorization
\* is pending always replays: it issues a process_request, which appends a
\* user turn.
C21_PendingContinueReplays ==
    [][/\ Truthy(auth_required) => \E i \in DOMAIN turns : turns[i].kind = "user"
       /\ (InputStep /\ last_cmd' = "continue") =>
             /\ pc' # "idle"
             /\ Len(conversation') = Len(conversation) + 1]_vars


\* C22 (as claimed): every process_request call appends exactly one user
\* turn, holding its argument, as its first effect, whatever the outcome; a
\* continue replay thereby appends a second copy of the text of the most
\* recent user turn.
C22_CallAppendsUserTurn ==
    [][CallStarts =>
          /\ conversation' = Append(conversation, <<"U", "s", "e", "r", ":", " ">> \o request_text')
          /\ last_cmd' = "continue" =>
                /\ UserTurnIndexes(turns) # {}
                /\ request_text' = LastUserTurnText(turns)]_vars


\* C23: in single-agent fallback mode a call changes the conversation only
\* by appending its user turn; the executed agent's text is returned and
\* never appended, and it is returned as it is even when an authorization
\* became pending during the execution.
C23_FallbackFrame ==
    (pc \in {"single", "done"} /\ NoSupervisor) =>
        /\ conversation = Append(conv_at_entry, <<"U", "s", "e", "r", ":", " ">> \o request_text)
        /\ pc = "done" =>
              responses =
                  (CASE agent_raw.kind = "text" /\ agent_raw.text # <<>> -> <<agent_raw.text>>
                     [] agent_raw.kind = "raise" ->
                           << <<"E", "r", "r", "o", "r", ":", " ">> \o agent_raw.text >>
                     [] OTHER -> <<>>)

\* the fallback agent returned its text although its tool invocation had
\* just made an authorization pending
C23_Witness ==
    /\ pc = "done"
    /\ NoSupervisor
    /\ auth_at_entry = None
    /\ auth_required = U1
    /\ agent_raw.kind = "text"
    /\ responses = <<agent_raw.text>>
    /\ Len(conversation) = Len(conv_at_entry) + 1

====
